---- MODULE Spec2Model ----
(***************************************************************************)
(* DockerCli.CmdImages (api/client/images.go): the "docker images"         *)
(* listing.  One call reads the image records returned by ImageList,       *)
(* flattens each record's RepoTags and RepoDigests into (repo, tag,        *)
(* digest) triples and writes one line per triple through a                *)
(* text/tabwriter.Writer that wraps cli.out.                               *)
(*                                                                         *)
(* Strings of the program are TLA+ strings; a line is the text handed to   *)
(* the writer without its final newline, cells separated by "\t".          *)
(***************************************************************************)
EXTENDS Integers, Sequences, FiniteSets, TLC

(* ------------------------------ bounds -------------------------------- *)

\* most image records in one ImageList answer
MaxImages == 2

\* most reference strings (RepoTags plus RepoDigests) over a whole answer
MaxRefs == 2

(* ----------------------------- constants ------------------------------ *)

None == "<none>"

NoneTag == "<none>:<none>"

NoneDigest == "<none>@<none>"

\* stringid.shortLen: the length of a truncated id
ShortLen == 12

\* time.Now().UTC(), in Unix seconds, at the time of the call
Now == 7200

ErrParse == "invalid reference format"

ErrList == "image list failed"

(* -------------------------- string helpers ---------------------------- *)

Min(a, b) == IF a < b THEN a ELSE b

\* strings.HasPrefix
HasPrefix(s, prefix) ==
    /\ Len(s) >= Len(prefix)
    /\ SubSeq(s, 1, Len(prefix)) = prefix

RECURSIVE IndexFrom(_, _, _)
\* position of the first occurrence of the one-character string c in s at or
\* after position p, 0 if none
IndexFrom(s, c, p) ==
    IF p > Len(s) THEN 0
    ELSE IF SubSeq(s, p, p) = c THEN p
    ELSE IndexFrom(s, c, p + 1)

\* position of the first occurrence of the one-character string c in s, 0 if none
IndexOf(s, c) == IndexFrom(s, c, 1)

\* the cells of a line: the text between its tab characters
RECURSIVE Cells(_)
Cells(line) ==
    LET t == IndexOf(line, "\t")
    IN  IF t = 0 THEN <<line>>
        ELSE <<SubSeq(line, 1, t - 1)>> \o Cells(SubSeq(line, t + 1, Len(line)))

(* ----------------------- external collaborators ----------------------- *)

\* stringid.TruncateID: the first shortLen characters of the id
TruncateID(id) == SubSeq(id, 1, Min(Len(id), ShortLen))

\* units.HumanDuration of a number of seconds
HumanDuration(seconds) ==
    IF seconds < 1 THEN "Less than a second"
    ELSE IF seconds < 60 THEN ToString(seconds) \o " seconds"
    ELSE IF seconds \div 60 = 1 THEN "About a minute"
    ELSE IF seconds \div 60 < 60 THEN ToString(seconds \div 60) \o " minutes"
    ELSE IF seconds \div 3600 = 1 THEN "About an hour"
    ELSE ToString(seconds \div 3600) \o " hours"

\* units.HumanSize of a number of bytes (decimal units)
HumanSize(size) ==
    IF size < 1000 THEN ToString(size) \o " B"
    ELSE IF size < 1000000 THEN ToString(size \div 1000) \o " kB"
    ELSE ToString(size \div 1000000) \o " MB"

NameChars ==
    {"a", "b", "c", "d", "e", "f", "g", "h", "i", "j", "k", "l", "m", "n", "o",
     "p", "q", "r", "s", "t", "u", "v", "w", "x", "y", "z", "0", "1", "2", "3",
     "4", "5", "6", "7", "8", "9", "/", ".", "-", "_"}

ValidName(s) == s # "" /\ \A p \in 1..Len(s) : SubSeq(s, p, p) \in NameChars

\* a digest is algorithm ":" hex, both parts non-empty
ValidDigest(s) ==
    LET c == IndexOf(s, ":")
    IN  /\ c > 1
        /\ c < Len(s)
        /\ ValidName(SubSeq(s, 1, c - 1))
        /\ ValidName(SubSeq(s, c + 1, Len(s)))

\* reference.ParseNamed: name [ ":" tag ] [ "@" digest ].  The result has
\* the Tagged capability iff tag # "" and the Digested capability iff
\* digest # "".
ParseNamed(s) ==
    LET at     == IndexOf(s, "@")
        head   == IF at = 0 THEN s ELSE SubSeq(s, 1, at - 1)
        digest == IF at = 0 THEN "" ELSE SubSeq(s, at + 1, Len(s))
        colon  == IndexOf(head, ":")
        name   == IF colon = 0 THEN head ELSE SubSeq(head, 1, colon - 1)
        tag    == IF colon = 0 THEN "" ELSE SubSeq(head, colon + 1, Len(head))
        ok     == /\ ValidName(name)
                  /\ colon # 0 => ValidName(tag)
                  /\ at # 0 => ValidDigest(digest)
    IN  IF ok THEN [err |-> "", name |-> name, tag |-> tag, digest |-> digest]
        ELSE [err |-> ErrParse, name |-> "", tag |-> "", digest |-> ""]

IsTagged(ref) == ref.tag # ""

IsDigested(ref) == ref.digest # ""

(* ------------------------------- inputs ------------------------------- *)

\* strings the daemon may put in RepoTags: the dangling sentinel, a tagged
\* reference, a reference with its repository missing
TagStrs == {NoneTag, "library/foo:latest", ":latest"}

\* strings the daemon may put in RepoDigests: the dangling sentinel, a
\* digested reference, a reference that carries a tag and a digest
DigestStrs == {NoneDigest, "bar@sha256:d1", "baz:v2@sha256:d2"}

\* the (RepoTags, RepoDigests) pairs holding at most b strings together
RefLists(b) ==
    UNION {[1..nt -> TagStrs] \X [1..nd -> DigestStrs] :
              <<nt, nd>> \in {q \in (0..b) \X (0..b) : q[1] + q[2] <= b}}

\* image ids are content addresses, so distinct records have distinct ids;
\* odd positions get an id longer than a short id, even ones a shorter id
ImageID(n) ==
    SubSeq("abcdefgh", n, n) \o (IF n % 2 = 1 THEN "0123456789abcdef" ELSE "0123")

\* types.Image
Image(n, tags, digests) ==
    [ID          |-> ImageID(n),
     RepoTags    |-> tags,
     RepoDigests |-> digests,
     Created     |-> Now - 1800 * n,
     Size        |-> 500000 * n]

\* the answers of ImageList: records n, n+1, ... holding at most b strings
RECURSIVE Answers(_, _)
Answers(n, b) ==
    {<<>>} \cup
    (IF n > MaxImages THEN {}
     ELSE UNION {{<<Image(n, p[1], p[2])>> \o rest :
                     rest \in Answers(n + 1, b - Len(p[1]) - Len(p[2]))} :
                 p \in RefLists(b)})

(* ------------------------------- state -------------------------------- *)

VARIABLES
    quiet,        \* *quiet
    noTrunc,      \* *noTrunc
    showDigests,  \* *showDigests
    images,       \* the records ImageList returned
    pc,           \* position of the call: "list", "header", "image", "ref", "done"
    idx,          \* position of the outer range loop in images
    ID,           \* the id as displayed for the current image
    refs,         \* tagsAndDigests of the current image
    k,            \* position of the inner range loop in refs
    w,            \* lines held by the tabwriter, not yet passed on
    out,          \* cli.out: the lines the user sees, as columns
    flushes,      \* number of calls of w.Flush() made by CmdImages
    err,          \* the error CmdImages returned, "" for nil
    triples       \* the repo, tag and digest of every inner iteration so far

vars ==
    <<quiet, noTrunc, showDigests, images, pc, idx, ID, refs, k, w, out,
      flushes, err, triples>>

flags == <<quiet, noTrunc, showDigests>>

(* ----------------------------- tabwriter ------------------------------ *)

\* what the writer passes on for the lines it holds: one row of columns per line
Format(buf) == [n \in 1..Len(buf) |-> Cells(buf[n])]

\* tabwriter.Writer.Write of one line ended by a newline: the line joins the
\* held lines; a line of a single cell cannot change the width of any
\* column, so the writer passes everything it holds on to the stream
TabWrite(buf, stream, line) ==
    IF Len(Cells(line)) = 1
    THEN [w |-> <<>>, out |-> stream \o Format(Append(buf, line))]
    ELSE [w |-> Append(buf, line), out |-> stream]

\* tabwriter.Writer.Flush
TabFlush(buf, stream) == [w |-> <<>>, out |-> stream \o Format(buf)]

(* --------------------------- pure functions --------------------------- *)

\* the header line with the two layouts exchanged
HeaderSwapped(digests) ==
    IF digests THEN "REPOSITORY\tTAG\tIMAGE ID\tCREATED\tSIZE"
    ELSE "REPOSITORY\tTAG\tDIGEST\tIMAGE ID\tCREATED\tSIZE"

\* the header line
Header(digests) ==
    IF digests THEN "REPOSITORY\tTAG\tDIGEST\tIMAGE ID\tCREATED\tSIZE"
    ELSE "REPOSITORY\tTAG\tIMAGE ID\tCREATED\tSIZE"

\* the id as displayed, with the test of noTrunc inverted
DisplayIDInverted(trunc, id) == IF trunc THEN TruncateID(id) ELSE id

\* the id as displayed
DisplayID(trunc, id) == IF ~trunc THEN TruncateID(id) ELSE id

\* a dangling image: one "<none>:<none>" tag and one "<none>@<none>" digest
IsDangling(repoTags, repoDigests) ==
    /\ Len(repoTags) = 1
    /\ repoTags[1] = NoneTag
    /\ Len(repoDigests) = 1
    /\ repoDigests[1] = NoneDigest

\* the combined list without the dangling rule
TagsAndDigestsNoCollapse(repoTags, repoDigests) == repoTags \o repoDigests

\* the combined list with the digests appended in front
TagsAndDigestsDigestsFirst(repoTags, repoDigests) ==
    IF IsDangling(repoTags, repoDigests) THEN repoTags
    ELSE repoDigests \o repoTags

\* the combined list with the dangling rule applied to every image
TagsAndDigestsTagsOnly(repoTags, repoDigests) == repoTags

\* the combined list of tags and digests of one image
TagsAndDigests(repoTags, repoDigests) ==
    IF IsDangling(repoTags, repoDigests) THEN repoTags
    ELSE repoTags \o repoDigests

\* the type switch with every matching case taken
TypeSwitchAllCases(ref) ==
    [tag    |-> IF IsTagged(ref) THEN ref.tag ELSE None,
     digest |-> IF IsDigested(ref) THEN ref.digest ELSE None]

\* the type switch on the parsed reference: the first case that matches
TypeSwitch(ref) ==
    IF IsDigested(ref) THEN [tag |-> None, digest |-> ref.digest]
    ELSE IF IsTagged(ref) THEN [tag |-> ref.tag, digest |-> None]
    ELSE [tag |-> None, digest |-> None]

\* whether the reference string is parsed at all
NeedsParse(repoAndRef) == ~HasPrefix(repoAndRef, None)

\* repo, tag and digest of a reference string that parses or needs no parsing
Triple(repoAndRef) ==
    IF ~NeedsParse(repoAndRef)
    THEN [repo |-> None, tag |-> None, digest |-> None]
    ELSE LET ref == ParseNamed(repoAndRef)
             x   == TypeSwitch(ref)
         IN  [repo |-> ref.name, tag |-> x.tag, digest |-> x.digest]

Age(image) == HumanDuration(Now - image.Created) \o " ago"

\* the line of one triple with showDigests tested before quiet
RowQuietLast(q, digests, t, id, image) ==
    IF digests
    THEN t.repo \o "\t" \o t.tag \o "\t" \o t.digest \o "\t" \o id \o "\t"
         \o Age(image) \o "\t" \o HumanSize(image.Size)
    ELSE IF ~q
         THEN t.repo \o "\t" \o t.tag \o "\t" \o id \o "\t"
              \o Age(image) \o "\t" \o HumanSize(image.Size)
         ELSE id

\* the line of one triple
Row(q, digests, t, id, image) ==
    IF ~q
    THEN IF digests
         THEN t.repo \o "\t" \o t.tag \o "\t" \o t.digest \o "\t" \o id \o "\t"
              \o Age(image) \o "\t" \o HumanSize(image.Size)
         ELSE t.repo \o "\t" \o t.tag \o "\t" \o id \o "\t"
              \o Age(image) \o "\t" \o HumanSize(image.Size)
    ELSE id

(* ------------------------------ actions ------------------------------- *)

Init ==
    /\ quiet \in BOOLEAN
    /\ noTrunc \in BOOLEAN
    /\ showDigests \in BOOLEAN
    /\ images = <<>>
    /\ pc = "list"
    /\ idx = 0
    /\ ID = ""
    /\ refs = <<>>
    /\ k = 0
    /\ w = <<>>
    /\ out = <<>>
    /\ flushes = 0
    /\ err = ""
    /\ triples = <<>>

\* cli.client.ImageList answers
ImageList ==
    /\ pc = "list"
    /\ images' \in Answers(1, MaxRefs)
    /\ pc' = "header"
    /\ UNCHANGED <<flags, idx, ID, refs, k, w, out, flushes, err, triples>>

\* cli.client.ImageList fails: the error is returned as it is
ImageListFails ==
    /\ pc = "list"
    /\ err' = ErrList
    /\ pc' = "done"
    /\ UNCHANGED <<flags, images, idx, ID, refs, k, w, out, flushes, triples>>

\* the writer is made and, unless quiet, the header is written to it
WriteHeader ==
    /\ pc = "header"
    /\ LET r == IF ~quiet THEN TabWrite(w, out, Header(showDigests))
                ELSE [w |-> w, out |-> out]
       IN  w' = r.w /\ out' = r.out
    /\ idx' = 1
    /\ pc' = "image"
    /\ UNCHANGED <<flags, images, ID, refs, k, flushes, err, triples>>

\* the outer loop taking the images from the last to the first
BeginImageReversed ==
    /\ pc = "image"
    /\ idx <= Len(images)
    /\ ID' = DisplayID(noTrunc, images[Len(images) + 1 - idx].ID)
    /\ refs' = TagsAndDigests(images[Len(images) + 1 - idx].RepoTags,
                              images[Len(images) + 1 - idx].RepoDigests)
    /\ k' = 1
    /\ pc' = "ref"
    /\ UNCHANGED <<flags, images, idx, w, out, flushes, err, triples>>

\* the outer loop takes the next image
BeginImage ==
    /\ pc = "image"
    /\ idx <= Len(images)
    /\ ID' = DisplayID(noTrunc, images[idx].ID)
    /\ refs' = TagsAndDigests(images[idx].RepoTags, images[idx].RepoDigests)
    /\ k' = 1
    /\ pc' = "ref"
    /\ UNCHANGED <<flags, images, idx, w, out, flushes, err, triples>>

\* one iteration of the inner loop, on a string that parses or needs no parsing
RenderRef ==
    /\ pc = "ref"
    /\ k <= Len(refs)
    /\ NeedsParse(refs[k]) => ParseNamed(refs[k]).err = ""
    /\ LET t == Triple(refs[k])
           r == TabWrite(w, out, Row(quiet, showDigests, t, ID, images[idx]))
       IN  /\ w' = r.w
           /\ out' = r.out
           /\ triples' = Append(triples,
                  [img |-> idx, ref |-> refs[k], repo |-> t.repo, tag |-> t.tag,
                   digest |-> t.digest])
    /\ k' = k + 1
    /\ UNCHANGED <<flags, images, pc, idx, ID, refs, flushes, err>>

\* a parse failure that flushes the writer before it returns
ParseFailsFlushing ==
    /\ pc = "ref"
    /\ k <= Len(refs)
    /\ NeedsParse(refs[k])
    /\ ParseNamed(refs[k]).err # ""
    /\ err' = ParseNamed(refs[k]).err
    /\ w' = TabFlush(w, out).w
    /\ out' = TabFlush(w, out).out
    /\ pc' = "done"
    /\ UNCHANGED <<flags, images, idx, ID, refs, k, flushes, triples>>

\* one iteration of the inner loop, on a string that does not parse
ParseFails ==
    /\ pc = "ref"
    /\ k <= Len(refs)
    /\ NeedsParse(refs[k])
    /\ ParseNamed(refs[k]).err # ""
    /\ err' = ParseNamed(refs[k]).err
    /\ pc' = "done"
    /\ UNCHANGED <<flags, images, idx, ID, refs, k, w, out, flushes, triples>>

\* the inner loop ends
EndImage ==
    /\ pc = "ref"
    /\ k > Len(refs)
    /\ idx' = idx + 1
    /\ pc' = "image"
    /\ UNCHANGED <<flags, images, ID, refs, k, w, out, flushes, err, triples>>

\* the end of the call with the flush made in every mode
FlushAndReturnAlways ==
    /\ pc = "image"
    /\ idx > Len(images)
    /\ w' = TabFlush(w, out).w
    /\ out' = TabFlush(w, out).out
    /\ flushes' = flushes + 1
    /\ pc' = "done"
    /\ UNCHANGED <<flags, images, idx, ID, refs, k, err, triples>>

\* the outer loop ends: unless quiet the writer is flushed; nil is returned
FlushAndReturn ==
    /\ pc = "image"
    /\ idx > Len(images)
    /\ LET r == IF ~quiet THEN TabFlush(w, out) ELSE [w |-> w, out |-> out]
       IN  w' = r.w /\ out' = r.out
    /\ flushes' = IF ~quiet THEN flushes + 1 ELSE flushes
    /\ pc' = "done"
    /\ UNCHANGED <<flags, images, idx, ID, refs, k, err, triples>>

Next ==
    \/ ImageList
    \/ ImageListFails
    \/ WriteHeader
    \/ BeginImage
    \/ RenderRef
    \/ ParseFails
    \/ EndImage
    \/ FlushAndReturn

Spec == Init /\ [][Next]_vars

(* ----------------------- vocabulary of the claims --------------------- *)

\* every line handed to the writer so far, as columns, in order
Written == out \o Format(w)

\* number of header lines a listing in this mode starts with
HeaderLines == IF quiet THEN 0 ELSE 1

\* the header has been written if it is written at all
PastHeader == pc \in {"image", "ref"} \/ (pc = "done" /\ err # ErrList)

\* the call returned nil
Succeeded == pc = "done" /\ err = ""

\* the inner loop of record i has run to its end
Processed(i) == i \in 1..Len(images) /\ idx > i

TriplesOf(i) == SelectSeq(triples, LAMBDA t : t.img = i)

RefsOf(ts) == [n \in 1..Len(ts) |-> ts[n].ref]

DanglingSingleton(image) ==
    image.RepoTags = <<NoneTag>> /\ image.RepoDigests = <<NoneDigest>>

\* the string is a sentinel or parses
WellFormed(s) == HasPrefix(s, None) \/ ParseNamed(s).err = ""

AllWellFormed(image) ==
    /\ \A n \in 1..Len(image.RepoTags) : WellFormed(image.RepoTags[n])
    /\ \A n \in 1..Len(image.RepoDigests) : WellFormed(image.RepoDigests[n])

\* the strings of a record that stand for a row each
Reconciled(image) ==
    IF DanglingSingleton(image) THEN <<NoneTag>>
    ELSE image.RepoTags \o image.RepoDigests

\* the id column of a row of record i
ShownID(i) ==
    IF noTrunc THEN images[i].ID
    ELSE SubSeq(images[i].ID, 1, Min(ShortLen, Len(images[i].ID)))

SixColumnHeader == <<"REPOSITORY", "TAG", "DIGEST", "IMAGE ID", "CREATED", "SIZE">>

FiveColumnHeader == <<"REPOSITORY", "TAG", "IMAGE ID", "CREATED", "SIZE">>

\* every iteration of the inner loop so far has written exactly one line
OneRowPerTriple == PastHeader => Len(Written) = HeaderLines + Len(triples)

(* ------------------------------- claims ------------------------------- *)

\* C1: a record whose tags are exactly ["<none>:<none>"] and whose digests
\* are exactly ["<none>@<none>"] gets exactly one triple and one row, not
\* two, and its repository, tag and digest are all "<none>", whatever the
\* display mode.
C1_DanglingOnce ==
    LET W == Written
    IN
    /\ OneRowPerTriple
    /\ \A i \in 1..Len(images) :
          DanglingSingleton(images[i]) =>
             /\ Len(TriplesOf(i)) <= 1
             /\ Processed(i) => Len(TriplesOf(i)) = 1
             /\ \A n \in 1..Len(triples) :
                   triples[n].img = i =>
                      /\ triples[n].repo = None
                      /\ triples[n].tag = None
                      /\ triples[n].digest = None
                      /\ ~quiet =>
                            /\ W[1 + n][1] = None
                            /\ W[1 + n][2] = None
                            /\ showDigests => W[1 + n][3] = None

C1_Witness ==
    /\ Succeeded
    /\ ~quiet
    /\ showDigests
    /\ Len(images) = 1
    /\ DanglingSingleton(images[1])
    /\ out = <<SixColumnHeader,
               <<None, None, None, ShownID(1), "30 minutes ago", "500 kB">>>>

\* C2: a record with N tags and M digests that is not the dangling
\* singleton and whose strings all parse gets exactly N+M triples: those of
\* the tags first, then those of the digests, each list in its own order.
C2_TagsThenDigests ==
    \A i \in 1..Len(images) :
       (~DanglingSingleton(images[i]) /\ AllWellFormed(images[i]) /\ Processed(i)) =>
          /\ Len(TriplesOf(i)) = Len(images[i].RepoTags) + Len(images[i].RepoDigests)
          /\ RefsOf(TriplesOf(i)) = images[i].RepoTags \o images[i].RepoDigests

C2_Witness ==
    /\ Succeeded
    /\ Len(images) = 1
    /\ images[1].RepoTags = <<NoneTag>>
    /\ images[1].RepoDigests = <<"bar@sha256:d1">>
    /\ Len(triples) = 2
    /\ triples[1].repo = None
    /\ triples[2].repo = "bar"

\* C3, as stated: when a reference string fails to parse, no row at all has
\* reached the user-visible stream, in quiet mode as in the others.
C3_NoOutputOnParseError == err = ErrParse => out = <<>>

\* C3, as amended: a malformed string that is reached makes the call fail
\* with the parse error, without a flush.  When quiet is false nothing has
\* then reached the stream, neither header nor row; when quiet is true the
\* id lines of the references before the malformed one are on the stream.
C3_ParseErrorOutput ==
    /\ (pc = "done" /\ \E i \in 1..Len(images) : ~AllWellFormed(images[i]))
          => err = ErrParse
    /\ err = ErrParse =>
          /\ pc = "done"
          /\ flushes = 0
          /\ ~quiet => out = <<>>
          /\ quiet => out = [n \in 1..Len(triples) |-> <<ShownID(triples[n].img)>>]

C3_Witness ==
    /\ err = ErrParse
    /\ ~quiet
    /\ Len(images) = 2
    /\ idx = 2
    /\ Len(triples) = 1
    /\ Len(w) = 2
    /\ out = <<>>

\* C4: no triple has both its tag and its digest set: from a reference that
\* is only tagged the digest is "<none>", from a digested reference the tag
\* is "<none>", and a reference that is tagged and digested sets one only.
C4_TagXorDigest ==
    LET W == Written
    IN
    \A n \in 1..Len(triples) :
       LET t == triples[n]
           r == ParseNamed(t.ref)
       IN  /\ ~(t.tag # None /\ t.digest # None)
           /\ (~quiet /\ showDigests) =>
                 ~(W[1 + n][2] # None /\ W[1 + n][3] # None)
           /\ ~HasPrefix(t.ref, None) =>
                 /\ (IsTagged(r) /\ ~IsDigested(r)) =>
                       t.tag = r.tag /\ t.digest = None
                 /\ IsDigested(r) => t.digest = r.digest /\ t.tag = None

C4_Witness ==
    /\ Succeeded
    /\ ~quiet
    /\ showDigests
    /\ \E n \in 1..Len(triples) :
          /\ triples[n].ref = "baz:v2@sha256:d2"
          /\ triples[n].digest = "sha256:d2"
          /\ triples[n].tag = None

\* C5: in quiet mode every line is one token, the id of its record, cut to
\* the short form iff noTrunc is false; no header and no other field is
\* written, whatever showDigests says.
C5_QuietIdsOnly ==
    LET W == Written
    IN  quiet =>
           /\ Len(W) = Len(triples)
           /\ \A n \in 1..Len(W) : W[n] = <<ShownID(triples[n].img)>>

C5_Witness ==
    /\ Succeeded
    /\ quiet
    /\ showDigests
    /\ ~noTrunc
    /\ Len(out) = 2
    /\ out[1] # <<images[1].ID>>

\* C6: unless quiet, the header is written exactly once, before any row and
\* however many records there are; it has the DIGEST column iff showDigests.
\* In quiet mode no header is written.
C6_HeaderOnce ==
    LET W       == Written
        headers == {n \in 1..Len(W) : W[n] \in {SixColumnHeader, FiveColumnHeader}}
    IN  /\ ~PastHeader => W = <<>>
        /\ quiet => headers = {}
        /\ (~quiet /\ PastHeader) =>
              /\ headers = {1}
              /\ W[1] = IF showDigests THEN SixColumnHeader ELSE FiveColumnHeader

C6_Witness ==
    /\ Succeeded
    /\ ~quiet
    /\ showDigests
    /\ Len(images) = 2
    /\ Len(out) = 3
    /\ out[1] = SixColumnHeader

\* C7, as stated: every record of a listing that succeeded, also one with
\* no tag and no digest, has at least one row.
C7_EveryRecordHasARow ==
    Succeeded => \A i \in 1..Len(images) : Len(TriplesOf(i)) >= 1

\* C7, as amended: a record has one triple per tag-or-digest string left by
\* the reconciliation and every triple has one row; so a record has a row
\* iff it has a tag or a digest, and one with neither has none.
C7_OneRowPerString ==
    /\ OneRowPerTriple
    /\ \A i \in 1..Len(images) :
          (Processed(i) /\ AllWellFormed(images[i])) =>
             /\ Len(TriplesOf(i)) = Len(Reconciled(images[i]))
             /\ Len(TriplesOf(i)) >= 1 <=>
                   (images[i].RepoTags # <<>> \/ images[i].RepoDigests # <<>>)

C7_Witness ==
    /\ Succeeded
    /\ Len(images) = 2
    /\ images[1].RepoTags = <<>>
    /\ images[1].RepoDigests = <<>>
    /\ Len(TriplesOf(1)) = 0
    /\ Len(TriplesOf(2)) = 2

\* C8: w.Flush() is called exactly once on a call that succeeds with quiet
\* false, after the last row; it is not called before the rows are
\* written, in quiet mode, or on a call that fails.
C8_FlushOnce ==
    /\ flushes <= 1
    /\ flushes = 1 =>
          /\ Succeeded
          /\ ~quiet
          /\ idx = Len(images) + 1
          /\ w = <<>>
          /\ Len(out) = 1 + Len(triples)
    /\ (Succeeded /\ ~quiet) => flushes = 1
    /\ quiet => flushes = 0
    /\ err # "" => flushes = 0
    /\ (~quiet /\ pc # "done") => out = <<>>

C8_Witness ==
    /\ flushes = 1
    /\ Len(images) = 2
    /\ Len(out) = 3

\* C9: unless quiet, a row has the six fields repo, tag, digest, id, age,
\* size when showDigests is set and the five fields repo, tag, id, age,
\* size otherwise, as many as the header; the id is the short form iff
\* noTrunc is false.
C9_RowFields ==
    LET W == Written
    IN
    (~quiet /\ PastHeader) =>
       /\ Len(W) = 1 + Len(triples)
       /\ \A n \in 1..Len(triples) :
             LET t     == triples[n]
                 image == images[t.img]
                 row   == W[1 + n]
             IN  /\ Len(row) = Len(W[1])
                 /\ showDigests =>
                       row = <<t.repo, t.tag, t.digest, ShownID(t.img),
                               Age(image), HumanSize(image.Size)>>
                 /\ ~showDigests =>
                       row = <<t.repo, t.tag, ShownID(t.img),
                               Age(image), HumanSize(image.Size)>>

C9_Witness ==
    /\ Succeeded
    /\ ~quiet
    /\ ~showDigests
    /\ ~noTrunc
    /\ Len(out) = 3
    /\ out[2] = <<"library/foo", "latest", "a0123456789a", "30 minutes ago", "500 kB">>
    /\ out[3] = <<"bar", None, "b0123", "About an hour ago", "1 MB">>

RECURSIVE ListingFrom(_)
\* record index and string of every row due from record i on, in order
ListingFrom(i) ==
    IF i > Len(images) THEN <<>>
    ELSE [n \in 1..Len(Reconciled(images[i])) |->
             <<i, Reconciled(images[i])[n]>>] \o ListingFrom(i + 1)

\* C10: the rows of a listing that succeeded are those of the first record
\* in reconciler order, then those of the second, and so on: nothing is
\* sorted, dropped as a duplicate or moved across records.
C10_InputOrder ==
    /\ \A m, n \in 1..Len(triples) : m < n => triples[m].img <= triples[n].img
    /\ Succeeded =>
          /\ [n \in 1..Len(triples) |-> <<triples[n].img, triples[n].ref>>]
                = ListingFrom(1)
          /\ Len(Written) = HeaderLines + Len(triples)

C10_Witness ==
    /\ Succeeded
    /\ quiet
    /\ Len(images) = 2
    /\ images[1].RepoTags = <<"library/foo:latest">>
    /\ images[1].RepoTags = images[2].RepoTags
    /\ images[1].RepoDigests = <<>>
    /\ images[2].RepoDigests = <<>>
    /\ out = <<<<ShownID(1)>>, <<ShownID(2)>>>>

====
